---- MODULE Spec2Model ----
(***************************************************************************)
(* Invite issuance and redemption (app/crud/invite_code.py) over the       *)
(* invite_codes and teacher_student_relations tables.                      *)
(*                                                                         *)
(* Every request is served by its own worker with its own database         *)
(* session (app/database.py get_db).  A statement of a session reads the   *)
(* rows committed so far; a commit applies the session's pending writes.   *)
(* One action of the model is one statement (or one commit) of one call.   *)
(* Time is counted in ticks of DaysPerTick days.                           *)
(***************************************************************************)
EXTENDS Integers, Sequences, FiniteSets, Bags, TLC

\* ---------------------------------------------------------------- bounds
MaxNow == 2
DaysPerTick == 7

\* ------------------------------------------------------ program constants
ALPHABET ==
  << "A", "B", "C", "D", "E", "F", "G", "H", "J", "K", "L", "M", "N", "P",
     "Q", "R", "S", "T", "U", "V", "W", "X", "Y", "Z", "2", "3", "4", "5",
     "6", "7", "8", "9" >>

CodeLength == 6
MaxAttempts == 5
TTL_DAYS == 7

\* ------------------------------------------------------------- the users
\* The users table is owned by other routers; the invite flow only reads it.
\* The rows it starts with: one teacher issues the codes; the redeemers are
\* the teacher, two students and an id without a row.
UserRows == (1 :> "teacher") @@ (2 :> "student") @@ (3 :> "student")

VARIABLE users  \* table users: id |-> role

TeacherIds == {u \in DOMAIN users : users[u] = "teacher"}

\* student_id arguments of use_invite_code: every user and one id that
\* matches no row.
NoUser == 4
StudentIdArgs == DOMAIN users \cup {NoUser}

\* The sessions that serve requests concurrently.
Workers == {1, 2}


\* generate_random_code: a sequence of `length` symbols of ALPHABET.  The
\* outcomes of random.choices are taken from a pool of two candidates.
Candidate(k, length) ==
  [i \in 1..length |-> ALPHABET[((5 * k + 3 * i) % Len(ALPHABET)) + 1]]

\* Faulty variant of generate_random_code: one symbol short.
generate_random_code_Short(length) == {Candidate(k, length - 1) : k \in {1, 2}}

generate_random_code(length) == {Candidate(k, length) : k \in {1, 2}}

CodeArgs == generate_random_code(CodeLength)

None == 0

VARIABLES
  now,          \* datetime.utcnow(), in ticks
  invite_codes, \* table invite_codes: row id |-> [code, teacher_id, created_at, used]
  relations,    \* table teacher_student_relations: the bag of its rows [teacher_id, student_id]
  pc,           \* per worker: the statement the call is at
  code,         \* per worker: the code argument of use_invite_code
  student_id,   \* per worker: the student_id argument, current_user.id of /invites/use
  teacher_id,   \* per worker: the teacher_id argument, current_user.id of /invites/create
  invite,       \* per worker: id of the invite row the session loaded
  attempt,      \* per worker: loop counter of create_invite_code
  status,       \* per worker: the value the call returned
  http,         \* per worker: the response the endpoint gave to the request
  expiredSeen,  \* history: codes for which some call has returned "expired"
  late,         \* history, per worker: the call began after such a return
  accounts,     \* table users as /init reads it: the bag of its rows [email, role]
  email,        \* per worker: the email of the /init request
  teacher_disciplines, \* table teacher_disciplines: <<teacher_id, discipline_id>> |-> is_active
  discipline_id \* per worker: the discipline_id of the admin request

vars == << users, now, invite_codes, relations, pc, code, student_id, teacher_id,
           invite, attempt, status, http, expiredSeen, late, accounts, email,
           teacher_disciplines, discipline_id >>

db == << invite_codes, relations >>
locals == << code, student_id, teacher_id, invite, attempt, status, http, late >>

\* The state of the admin endpoints for the disciplines of a teacher.
disciplinevars == << teacher_disciplines, discipline_id >>

\* What the invite flow never writes: the roles of the users, the state of
\* POST /init/create-first-superadmin and that of the admin endpoints.
initvars == << users, accounts, email, disciplinevars >>

\* ------------------------------------------------------------ store reads
InviteIds == DOMAIN invite_codes

\* Faulty variant of UnusedByCode: the filter without used == False.
UnusedByCode_AnyRow(c) == {i \in DOMAIN invite_codes : invite_codes[i].code = c}

\* db.query(InviteCode).filter(code == c, used == False): the matching rows
UnusedByCode(c) ==
  {i \in InviteIds : invite_codes[i].code = c /\ invite_codes[i].used = FALSE}

\* db.query(InviteCode).filter(code == c): the matching rows
AnyByCode(c) == {i \in InviteIds : invite_codes[i].code = c}

\* Faulty variant of NewRelation: the two ids in each other's column.
NewRelation_Swapped(t, s) == [teacher_id |-> s, student_id |-> t]

\* A row of teacher_student_relations (its id and created_at are not read).
NewRelation(t, s) == [teacher_id |-> t, student_id |-> s]

\* db.query(TeacherStudentRelation).filter(teacher_id == t, student_id == s):
\* the number of matching rows
RelationRows(t, s) == CopiesIn(NewRelation(t, s), relations)

\* Faulty variant of CodeIsFree: the column without its unique constraint.
CodeIsFree_NoConstraint(c) == TRUE

\* unique=True on invite_codes.code: the insert of a second row with the
\* same code raises IntegrityError at commit.
CodeIsFree(c) == AnyByCode(c) = {}

\* Faulty variant of NewInvite: created_at without its default.
NewInvite_Epoch(c, t) == [code |-> c, teacher_id |-> t, created_at |-> 0, used |-> FALSE]

\* The row an INSERT into invite_codes creates: used and created_at take the
\* column defaults.
NewInvite(c, t) == [code |-> c, teacher_id |-> t, created_at |-> now, used |-> FALSE]

\* Faulty variant of _is_expired: == in the place of >.
_is_expired_Equal(i, ttl_days) ==
  (now - invite_codes[i].created_at) * DaysPerTick = ttl_days

\* (datetime.utcnow() - invite.created_at) > timedelta(days=ttl_days)
_is_expired(i, ttl_days) ==
  (now - invite_codes[i].created_at) * DaysPerTick > ttl_days

\* Faulty variant of IsStudent: the role check left out.
IsStudent_AnyRole(u) == TRUE

\* student.role != "student"
IsStudent(u) == users[u] = "student"

\* Faulty variant of StudentNotFound: a missing user reported as a bad code.
StudentNotFound_Conflated == "invalid"

\* return "student_not_found"
StudentNotFound == "student_not_found"

\* Faulty variant of Expired: the expired branch reports a bad code.
Expired_Conflated == "invalid"

\* return "expired"
Expired == "expired"

\* Faulty variant of AlreadyLinked: a status the endpoint does not know.
AlreadyLinked_Misspelt == "already linked"

\* The status returned when the relation exists already.
AlreadyLinked == "already_linked"

\* Faulty variant of MarkUsed: the flag is flipped.
MarkUsed_Toggle(i) == [invite_codes EXCEPT ![i].used = ~ invite_codes[i].used]

\* invite.used = True, written by the commit
MarkUsed(i) == [invite_codes EXCEPT ![i].used = TRUE]

\* Faulty variant of OnAlreadyLinked: the code is consumed.
OnAlreadyLinked_Consumes(i) == [invite_codes EXCEPT ![i].used = TRUE]

\* The already_linked branch returns without marking the invite used.
OnAlreadyLinked(i) == invite_codes

\* Faulty variant of InsertRelation: the link is not added to the session.
InsertRelation_Lost(t, s) == relations

\* db.add(TeacherStudentRelation(teacher_id=t, student_id=s)), written by
\* the commit
InsertRelation(t, s) == relations (+) SetToBag({NewRelation(t, s)})

\* ------------------------------------------------------------ responses
\* A response: the HTTP status and what the body says.
Response(c, d) == [status_code |-> c, detail |-> d]

NoResponse == Response(0, "")

\* Faulty variant of use_invite_code_endpoint: a bad code answered like an
\* expired one.
use_invite_code_endpoint_Invalid400(s) ==
  IF s = "expired" THEN Response(400, "Invite code expired")
  ELSE IF s = "student_not_found" THEN Response(404, "Student not found")
  ELSE IF s = "invalid" THEN Response(400, "Invalid or used code")
  ELSE IF s = "already_linked" THEN Response(400, "Already connected to this teacher")
  ELSE IF s = "success" THEN Response(200, "Successfully connected to teacher")
  ELSE Response(400, "Unknown status")

\* POST /invites/use after the call of use_invite: the status it answers with.
use_invite_code_endpoint(s) ==
  IF s = "expired" THEN Response(400, "Invite code expired")
  ELSE IF s = "student_not_found" THEN Response(404, "Student not found")
  ELSE IF s = "invalid" THEN Response(404, "Invalid or used code")
  ELSE IF s = "already_linked" THEN Response(400, "Already connected to this teacher")
  ELSE IF s = "success" THEN Response(200, "Successfully connected to teacher")
  ELSE Response(400, "Unknown status")

\* Faulty variant of create_invite_code: the RuntimeError is not caught and
\* the invite is answered as if it had been created.
create_invite_code_Swallowed(r) == Response(200, "invite")

\* POST /invites/create after the call of create_invite: the invite, or 500
\* for the RuntimeError.
create_invite_code(r) ==
  IF r = "RuntimeError"
    THEN Response(500, "could not generate a unique invite code")
    ELSE Response(200, "invite")

\* The email of a user of the invite flow.
Email(u) == <<"user", u>>

\* ------------------------------------------------------------------ Init
Init ==
  /\ users = UserRows
  /\ now = 0
  /\ invite_codes = << >>
  /\ relations = EmptyBag
  /\ pc = [w \in Workers |-> "idle"]
  /\ code = [w \in Workers |-> << >>]
  /\ student_id = [w \in Workers |-> None]
  /\ teacher_id = [w \in Workers |-> None]
  /\ invite = [w \in Workers |-> None]
  /\ attempt = [w \in Workers |-> 0]
  /\ status = [w \in Workers |-> "none"]
  /\ http = [w \in Workers |-> NoResponse]
  /\ expiredSeen = {}
  /\ late = [w \in Workers |-> FALSE]
  /\ accounts = SetToBag({[email |-> Email(u), role |-> UserRows[u]] : u \in DOMAIN UserRows})
  /\ email = [w \in Workers |-> << >>]
  /\ teacher_disciplines = << >>
  /\ discipline_id = [w \in Workers |-> None]

\* The value a call of use_invite_code returns: the worker is done with it.
Returns(w, s) ==
  /\ pc' = [pc EXCEPT ![w] = "done"]
  /\ status' = [status EXCEPT ![w] = s]
  /\ http' = [http EXCEPT ![w] = use_invite_code_endpoint(s)]
  /\ expiredSeen' = IF s = "expired" THEN expiredSeen \cup {code[w]} ELSE expiredSeen

\* The clock.
Tick ==
  /\ now < MaxNow
  /\ now' = now + 1
  /\ UNCHANGED << initvars, db, pc, locals, expiredSeen >>

\* ------------------------------------------------- create_invite_code
\* Entry of create_invite_code(db, teacher_id).
IssueCall(w, t) ==
  /\ pc[w] = "idle"
  /\ pc' = [pc EXCEPT ![w] = "issue"]
  /\ teacher_id' = [teacher_id EXCEPT ![w] = t]
  /\ attempt' = [attempt EXCEPT ![w] = 0]
  /\ UNCHANGED << initvars, now, db, code, student_id, invite, status, http, expiredSeen, late >>

\* Faulty variant of IssueAttempt: the loop goes on after an insert that
\* succeeded.
IssueAttempt_NoReturn(w, c) ==
  /\ pc[w] = "issue"
  /\ attempt' = [attempt EXCEPT ![w] = attempt[w] + 1]
  /\ IF CodeIsFree(c)
       THEN /\ invite_codes' = Append(invite_codes, NewInvite(c, teacher_id[w]))
            /\ invite' = [invite EXCEPT ![w] = Len(invite_codes) + 1]
       ELSE UNCHANGED << invite_codes, invite >>
  /\ IF attempt[w] + 1 < MaxAttempts
       THEN UNCHANGED << pc, status, http >>
       ELSE /\ pc' = [pc EXCEPT ![w] = "done"]
            /\ status' = [status EXCEPT ![w] = IF invite'[w] # None THEN "created" ELSE "RuntimeError"]
            /\ http' = [http EXCEPT ![w] = create_invite_code(status'[w])]
  /\ UNCHANGED << initvars, now, relations, code, student_id, teacher_id, expiredSeen, late >>

\* One pass of the loop: a candidate, db.add, db.commit.  The commit either
\* inserts the row (return invite) or raises IntegrityError (rollback,
\* continue); leaving the loop raises RuntimeError.
IssueAttempt(w, c) ==
  /\ pc[w] = "issue"
  /\ IF CodeIsFree(c)
       THEN /\ invite_codes' = Append(invite_codes, NewInvite(c, teacher_id[w]))
            /\ invite' = [invite EXCEPT ![w] = Len(invite_codes) + 1]
            /\ pc' = [pc EXCEPT ![w] = "done"]
            /\ status' = [status EXCEPT ![w] = "created"]
            /\ http' = [http EXCEPT ![w] = create_invite_code("created")]
            /\ UNCHANGED attempt
       ELSE /\ attempt' = [attempt EXCEPT ![w] = attempt[w] + 1]
            /\ IF attempt[w] + 1 < MaxAttempts
                 THEN UNCHANGED << pc, status, http >>
                 ELSE /\ pc' = [pc EXCEPT ![w] = "done"]
                      /\ status' = [status EXCEPT ![w] = "RuntimeError"]
                      /\ http' = [http EXCEPT ![w] = create_invite_code("RuntimeError")]
            /\ UNCHANGED << invite_codes, invite >>
  /\ UNCHANGED << initvars, now, relations, code, student_id, teacher_id, expiredSeen, late >>

\* Faulty variant of RedeemLookup: the user is looked up before the invite.
RedeemLookup_StudentFirst(w, c, s) ==
  /\ pc[w] = "idle"
  /\ code' = [code EXCEPT ![w] = c]
  /\ student_id' = [student_id EXCEPT ![w] = s]
  /\ late' = [late EXCEPT ![w] = c \in expiredSeen]
  /\ IF s \notin DOMAIN users
       THEN /\ Returns(w, StudentNotFound)
            /\ UNCHANGED invite
       ELSE IF UnusedByCode(c) = {}
         THEN /\ Returns(w, "invalid")
              /\ UNCHANGED invite
         ELSE /\ invite' = [invite EXCEPT ![w] = CHOOSE i \in UnusedByCode(c) : TRUE]
              /\ pc' = [pc EXCEPT ![w] = "expiry"]
              /\ UNCHANGED << status, http, expiredSeen >>
  /\ UNCHANGED << initvars, now, db, teacher_id, attempt >>

\* ---------------------------------------------------- use_invite_code
\* Entry and the first query: the unused invite with this code.  (The second
\* query of the not-found branch only chooses the log line.)
RedeemLookup(w, c, s) ==
  /\ pc[w] = "idle"
  /\ code' = [code EXCEPT ![w] = c]
  /\ student_id' = [student_id EXCEPT ![w] = s]
  /\ late' = [late EXCEPT ![w] = c \in expiredSeen]
  /\ IF UnusedByCode(c) = {}
       THEN /\ Returns(w, "invalid")
            /\ UNCHANGED invite
       ELSE /\ invite' = [invite EXCEPT ![w] = CHOOSE i \in UnusedByCode(c) : TRUE]
            /\ pc' = [pc EXCEPT ![w] = "expiry"]
            /\ UNCHANGED << status, http, expiredSeen >>
  /\ UNCHANGED << initvars, now, db, teacher_id, attempt >>

\* if _is_expired(invite): return "expired"
RedeemExpiry(w) ==
  /\ pc[w] = "expiry"
  /\ IF _is_expired(invite[w], TTL_DAYS)
       THEN Returns(w, Expired)
       ELSE /\ pc' = [pc EXCEPT ![w] = "student"]
            /\ UNCHANGED << status, http, expiredSeen >>
  /\ UNCHANGED << initvars, now, db, code, student_id, teacher_id, invite, attempt, late >>

\* The user query and the role check.
RedeemStudent(w) ==
  /\ pc[w] = "student"
  /\ IF student_id[w] \notin DOMAIN users
       THEN Returns(w, StudentNotFound)
       ELSE IF ~ IsStudent(student_id[w])
         THEN Returns(w, "invalid")
         ELSE /\ pc' = [pc EXCEPT ![w] = "exists"]
              /\ UNCHANGED << status, http, expiredSeen >>
  /\ UNCHANGED << initvars, now, db, code, student_id, teacher_id, invite, attempt, late >>

\* The query for a relation of the invite's teacher and the student.
RedeemExists(w) ==
  /\ pc[w] = "exists"
  /\ IF RelationRows(invite_codes[invite[w]].teacher_id, student_id[w]) > 0
       THEN /\ Returns(w, AlreadyLinked)
            /\ invite_codes' = OnAlreadyLinked(invite[w])
       ELSE /\ pc' = [pc EXCEPT ![w] = "commit"]
            /\ UNCHANGED << invite_codes, status, http, expiredSeen >>
  /\ UNCHANGED << initvars, now, relations, code, student_id, teacher_id, invite, attempt, late >>

\* Faulty variant of RedeemCommit: the commit reads the invite again and gives
\* up when another redemption has used it in the meantime.
RedeemCommit_Recheck(w) ==
  /\ pc[w] = "commit"
  /\ IF invite_codes[invite[w]].used
       THEN /\ Returns(w, "invalid")
            /\ UNCHANGED db
       ELSE /\ relations' = InsertRelation(invite_codes[invite[w]].teacher_id, student_id[w])
            /\ invite_codes' = MarkUsed(invite[w])
            /\ Returns(w, "success")
  /\ UNCHANGED << initvars, now, code, student_id, teacher_id, invite, attempt, late >>

\* db.add(link); invite.used = True; db.commit(): one transaction.
RedeemCommit(w) ==
  /\ pc[w] = "commit"
  /\ relations' = InsertRelation(invite_codes[invite[w]].teacher_id, student_id[w])
  /\ invite_codes' = MarkUsed(invite[w])
  /\ Returns(w, "success")
  /\ UNCHANGED << initvars, now, code, student_id, teacher_id, invite, attempt, late >>

\* The caller has the result; the worker takes the next request.
Finish(w) ==
  /\ pc[w] = "done"
  /\ pc' = [pc EXCEPT ![w] = "idle"]
  /\ code' = [code EXCEPT ![w] = << >>]
  /\ student_id' = [student_id EXCEPT ![w] = None]
  /\ teacher_id' = [teacher_id EXCEPT ![w] = None]
  /\ invite' = [invite EXCEPT ![w] = None]
  /\ attempt' = [attempt EXCEPT ![w] = 0]
  /\ status' = [status EXCEPT ![w] = "none"]
  /\ http' = [http EXCEPT ![w] = NoResponse]
  /\ late' = [late EXCEPT ![w] = FALSE]
  /\ UNCHANGED << initvars, now, db, expiredSeen >>

Next ==
  \/ Tick
  \/ \E w \in Workers, t \in TeacherIds : IssueCall(w, t)
  \/ \E w \in Workers, c \in generate_random_code(CodeLength) : IssueAttempt(w, c)
  \/ \E w \in Workers, c \in CodeArgs, s \in StudentIdArgs : RedeemLookup(w, c, s)
  \/ \E w \in Workers : RedeemExpiry(w)
  \/ \E w \in Workers : RedeemStudent(w)
  \/ \E w \in Workers : RedeemExists(w)
  \/ \E w \in Workers : RedeemCommit(w)
  \/ \E w \in Workers : Finish(w)

Spec == Init /\ [][Next]_vars

\* ------------------------------------------------------ issue calls alone
\* The calls of create_invite_code, each served by a worker that keeps
\* running: a call inside the loop makes its next attempt.
NextIssue ==
  \/ Tick
  \/ \E w \in Workers, t \in TeacherIds : IssueCall(w, t)
  \/ \E w \in Workers, c \in generate_random_code(CodeLength) : IssueAttempt(w, c)
  \/ \E w \in Workers : Finish(w)

FairIssue ==
  \A w \in Workers :
    WF_vars(\E c \in generate_random_code(CodeLength) : IssueAttempt(w, c))

SpecIssue == Init /\ [][NextIssue]_vars /\ FairIssue

\* ------------------------------------------- the first superadministrator
\* The emails of the requests: two new ones and the email of a user.
InitEmailArgs == {<<"admin", 1>>, <<"admin", 2>>, Email(1)}

\* db.query(User).filter(User.role == RoleEnum.superadmin).count()
existing_superadmins ==
  BagCardinality([r \in {x \in BagToSet(accounts) : x.role = "superadmin"} |-> accounts[r]])

\* db.query(User).filter(User.email == request_data.email).first()
existing_user(e) == {r \in BagToSet(accounts) : r.email = e}

\* The count of superadmins: 403 when there is one.
create_first_superadmin(w, e) ==
  /\ pc[w] = "idle"
  /\ email' = [email EXCEPT ![w] = e]
  /\ IF existing_superadmins > 0
       THEN /\ pc' = [pc EXCEPT ![w] = "done"]
            /\ http' = [http EXCEPT ![w] = Response(403, "superadmin exists")]
       ELSE /\ pc' = [pc EXCEPT ![w] = "check_email"]
            /\ UNCHANGED http
  /\ UNCHANGED << disciplinevars, users, accounts, now, db, code, student_id, teacher_id, invite,
                  attempt, status, expiredSeen, late >>

\* The email query: 400 when a user has the email.
InitCheckEmail(w) ==
  /\ pc[w] = "check_email"
  /\ IF existing_user(email[w]) # {}
       THEN /\ pc' = [pc EXCEPT ![w] = "done"]
            /\ http' = [http EXCEPT ![w] = Response(400, "email exists")]
       ELSE /\ pc' = [pc EXCEPT ![w] = "add_superadmin"]
            /\ UNCHANGED http
  /\ UNCHANGED << initvars, now, db, code, student_id, teacher_id, invite,
                  attempt, status, expiredSeen, late >>

\* db.add(new_superadmin); db.commit(): 201, or 500 after the IntegrityError
\* of the unique index on users.email.
InitCommit(w) ==
  /\ pc[w] = "add_superadmin"
  /\ pc' = [pc EXCEPT ![w] = "done"]
  /\ IF existing_user(email[w]) # {}
       THEN /\ http' = [http EXCEPT ![w] = Response(500, "IntegrityError")]
            /\ UNCHANGED accounts
       ELSE /\ http' = [http EXCEPT ![w] = Response(201, "superadmin created")]
            /\ accounts' = accounts (+) SetToBag({[email |-> email[w], role |-> "superadmin"]})
  /\ UNCHANGED << disciplinevars, users, email, now, db, code, student_id, teacher_id, invite,
                  attempt, status, expiredSeen, late >>

\* The caller has the response; the worker takes the next request.
InitFinish(w) ==
  /\ pc[w] = "done"
  /\ pc' = [pc EXCEPT ![w] = "idle"]
  /\ email' = [email EXCEPT ![w] = << >>]
  /\ http' = [http EXCEPT ![w] = NoResponse]
  /\ UNCHANGED << disciplinevars, users, accounts, now, db, code, student_id, teacher_id, invite,
                  attempt, status, expiredSeen, late >>

NextInit ==
  \/ \E w \in Workers, e \in InitEmailArgs : create_first_superadmin(w, e)
  \/ \E w \in Workers : InitCheckEmail(w)
  \/ \E w \in Workers : InitCommit(w)
  \/ \E w \in Workers : InitFinish(w)

SpecInit == Init /\ [][NextInit]_vars

\* ------------------------------------------------------- failing commits
\* Faulty variant of rollback: the pending relation row is kept.
rollback_KeepsRelation(w) ==
  relations (+) SetToBag({NewRelation(invite_codes[invite[w]].teacher_id, student_id[w])})

\* db.rollback(): the table teacher_student_relations after the pending
\* insert is discarded.
rollback(w) == relations

\* The exception of a statement that has no handler in the invite service.
SQLAlchemyError == "SQLAlchemyError"

\* The exception leaves the call: /invites/create answers it with 500 in its
\* except SQLAlchemyError branch, /invites/use has no handler and the
\* framework answers 500.
Raises(w, e) ==
  /\ pc' = [pc EXCEPT ![w] = "done"]
  /\ status' = [status EXCEPT ![w] = e]
  /\ http' = [http EXCEPT ![w] = Response(500, "Internal Server Error")]
  /\ UNCHANGED << initvars, now, db, teacher_id, invite, attempt, expiredSeen >>

\* Faulty variant of RedeemCommitFails: the try block does not catch the
\* exception.
RedeemCommitFails_Raises(w) ==
  /\ pc[w] = "commit"
  /\ Raises(w, SQLAlchemyError)
  /\ UNCHANGED << code, student_id, late >>

\* db.add(link) or db.commit() raises: the except branch rolls the
\* transaction back and returns "invalid".
RedeemCommitFails(w) ==
  /\ pc[w] = "commit"
  /\ relations' = rollback(w)
  /\ UNCHANGED invite_codes
  /\ Returns(w, "invalid")
  /\ UNCHANGED << initvars, now, code, student_id, teacher_id, invite, attempt, late >>

NextFaults ==
  \/ Next
  \/ \E w \in Workers : RedeemCommitFails(w)

SpecFaults == Init /\ [][NextFaults]_vars

\* ----------------------------------------------------- failing statements
\* The lookup of use_invite_code raises: the query is outside the try block.
RedeemLookupFails(w, c, s) ==
  /\ pc[w] = "idle"
  /\ code' = [code EXCEPT ![w] = c]
  /\ student_id' = [student_id EXCEPT ![w] = s]
  /\ late' = [late EXCEPT ![w] = c \in expiredSeen]
  /\ Raises(w, SQLAlchemyError)

\* The user query or the relation query raises, outside the try block too.
RedeemQueryFails(w) ==
  /\ pc[w] \in {"student", "exists"}
  /\ Raises(w, SQLAlchemyError)
  /\ UNCHANGED << code, student_id, late >>

\* db.commit() of create_invite_code raises an error that is no
\* IntegrityError: only IntegrityError is caught.
IssueCommitFails(w) ==
  /\ pc[w] = "issue"
  /\ Raises(w, SQLAlchemyError)
  /\ UNCHANGED << code, student_id, late >>

\* The callers of use_invite_code where other requests are added to the
\* invite flow: one student and the id without a row.
FewStudentIdArgs == {2, NoUser}

NextStore ==
  \/ Tick
  \/ \E w \in Workers, t \in TeacherIds : IssueCall(w, t)
  \/ \E w \in Workers, c \in generate_random_code(CodeLength) : IssueAttempt(w, c)
  \/ \E w \in Workers : IssueCommitFails(w)
  \/ \E w \in Workers, c \in CodeArgs, s \in FewStudentIdArgs : RedeemLookup(w, c, s)
  \/ \E w \in Workers, c \in CodeArgs, s \in FewStudentIdArgs : RedeemLookupFails(w, c, s)
  \/ \E w \in Workers : RedeemExpiry(w)
  \/ \E w \in Workers : RedeemStudent(w)
  \/ \E w \in Workers : RedeemExists(w)
  \/ \E w \in Workers : RedeemQueryFails(w)
  \/ \E w \in Workers : RedeemCommit(w)
  \/ \E w \in Workers : RedeemCommitFails(w)
  \/ \E w \in Workers : Finish(w)

SpecStore == Init /\ [][NextStore]_vars

\* ------------------------------------------- the disciplines of a teacher
\* The rows of table disciplines, and the discipline_id arguments: every
\* discipline and one id that matches no row.
DisciplineIds == {1, 2}

NoDiscipline == 3

DisciplineIdArgs == DisciplineIds \cup {NoDiscipline}

\* The teacher_id arguments: the teacher, a student and the id without a row.
AssignTeacherArgs == {1, 2, NoUser}

\* The roles of the users who send the admin requests.
AdminRoles == {"school_admin", "teacher"}

\* An admin request is answered.
Answers(w, c, d) ==
  /\ pc' = [pc EXCEPT ![w] = "done"]
  /\ http' = [http EXCEPT ![w] = Response(c, d)]

\* The checks both admin endpoints make before they touch the assignment:
\* the response of the check that fails, NoResponse when all pass.
AdminChecks(r, t, d) ==
  IF r # "school_admin" THEN Response(403, "school admin required")
  ELSE IF t \notin DOMAIN users THEN Response(404, "teacher not found")
  ELSE IF users[t] # "teacher" THEN Response(400, "not a teacher")
  ELSE IF d \notin DisciplineIds THEN Response(404, "discipline not found")
  ELSE NoResponse

\* Faulty variant of assign_discipline_to_teacher: an inactive assignment is
\* made active again.
assign_discipline_to_teacher_Reactivates(w, t, d) ==
  IF <<t, d>> \in DOMAIN teacher_disciplines /\ teacher_disciplines[<<t, d>>]
    THEN /\ Answers(w, 400, "already assigned")
         /\ UNCHANGED teacher_disciplines
    ELSE /\ teacher_disciplines' =
              [p \in DOMAIN teacher_disciplines \cup {<<t, d>>} |->
                 IF p = <<t, d>> THEN TRUE ELSE teacher_disciplines[p]]
         /\ Answers(w, 200, "assigned")

\* assign_discipline_to_teacher: the insert of an active row; the unique
\* constraint on (teacher_id, discipline_id) raises IntegrityError, which
\* the endpoint answers with 400.
assign_discipline_to_teacher(w, t, d) ==
  IF <<t, d>> \in DOMAIN teacher_disciplines
    THEN /\ Answers(w, 400, "already assigned")
         /\ UNCHANGED teacher_disciplines
    ELSE /\ teacher_disciplines' =
              [p \in DOMAIN teacher_disciplines \cup {<<t, d>>} |->
                 IF p = <<t, d>> THEN TRUE ELSE teacher_disciplines[p]]
         /\ Answers(w, 200, "assigned")

\* POST /api/teacher/{teacher_id}/assign-discipline by a user of role r.
assign_discipline(w, r, t, d) ==
  /\ pc[w] = "idle"
  /\ teacher_id' = [teacher_id EXCEPT ![w] = t]
  /\ discipline_id' = [discipline_id EXCEPT ![w] = d]
  /\ status' = [status EXCEPT ![w] = "assign"]
  /\ IF AdminChecks(r, t, d) # NoResponse
       THEN /\ Answers(w, AdminChecks(r, t, d).status_code, AdminChecks(r, t, d).detail)
            /\ UNCHANGED teacher_disciplines
       ELSE assign_discipline_to_teacher(w, t, d)
  /\ UNCHANGED << users, accounts, email, now, db, code, student_id, invite, attempt,
                  expiredSeen, late >>

\* DELETE /api/teacher/{teacher_id}/remove-discipline/{discipline_id} up to
\* the query of remove_discipline_from_teacher: 404 when no row is found.
remove_discipline(w, r, t, d) ==
  /\ pc[w] = "idle"
  /\ teacher_id' = [teacher_id EXCEPT ![w] = t]
  /\ discipline_id' = [discipline_id EXCEPT ![w] = d]
  /\ status' = [status EXCEPT ![w] = "remove"]
  /\ IF AdminChecks(r, t, d) # NoResponse
       THEN Answers(w, AdminChecks(r, t, d).status_code, AdminChecks(r, t, d).detail)
       ELSE IF <<t, d>> \notin DOMAIN teacher_disciplines
         THEN Answers(w, 404, "not assigned")
         ELSE /\ pc' = [pc EXCEPT ![w] = "soft_delete"]
              /\ UNCHANGED http
  /\ UNCHANGED << users, accounts, email, teacher_disciplines, now, db, code, student_id,
                  invite, attempt, expiredSeen, late >>

\* assignment.is_active = False; db.commit()
remove_discipline_from_teacher(w) ==
  /\ pc[w] = "soft_delete"
  /\ teacher_disciplines' =
       [teacher_disciplines EXCEPT ![<<teacher_id[w], discipline_id[w]>>] = FALSE]
  /\ Answers(w, 200, "removed")
  /\ UNCHANGED << users, accounts, email, discipline_id, now, db, code, student_id,
                  teacher_id, invite, attempt, status, expiredSeen, late >>

\* The caller has the response; the worker takes the next request.
AdminFinish(w) ==
  /\ pc[w] = "done"
  /\ pc' = [pc EXCEPT ![w] = "idle"]
  /\ teacher_id' = [teacher_id EXCEPT ![w] = None]
  /\ discipline_id' = [discipline_id EXCEPT ![w] = None]
  /\ status' = [status EXCEPT ![w] = "none"]
  /\ http' = [http EXCEPT ![w] = NoResponse]
  /\ UNCHANGED << users, accounts, email, teacher_disciplines, now, db, code, student_id,
                  invite, attempt, expiredSeen, late >>

NextDisciplines ==
  \/ \E w \in Workers, r \in AdminRoles, t \in AssignTeacherArgs, d \in DisciplineIdArgs :
       assign_discipline(w, r, t, d)
  \/ \E w \in Workers, r \in AdminRoles, t \in AssignTeacherArgs, d \in DisciplineIdArgs :
       remove_discipline(w, r, t, d)
  \/ \E w \in Workers : remove_discipline_from_teacher(w)
  \/ \E w \in Workers : AdminFinish(w)

SpecDisciplines == Init /\ [][NextDisciplines]_vars

\* ------------------------------------------------- the reading endpoints
\* A GET request answered in one step: 403 from the role check, or 200 with
\* what the queries have read.
Reads(w, endpoint, allowed, result) ==
  /\ pc[w] = "idle"
  /\ pc' = [pc EXCEPT ![w] = "done"]
  /\ status' = [status EXCEPT ![w] = "read"]
  /\ http' = [http EXCEPT ![w] =
                IF allowed THEN Response(200, [endpoint |-> endpoint, rows |-> result])
                           ELSE Response(403, [endpoint |-> endpoint, rows |-> {}])]
  /\ UNCHANGED << initvars, now, code, student_id, teacher_id, invite, attempt,
                  expiredSeen, late >>

\* GET /invites/mine: the invites of the teacher.
my_invites(w, u) ==
  /\ Reads(w, "/invites/mine", users[u] = "teacher",
           {invite_codes[i] : i \in {j \in DOMAIN invite_codes : invite_codes[j].teacher_id = u}})
  /\ UNCHANGED db

\* Faulty variant of debug_code: looking a code up spends it.
debug_code_Consumes(w, c) ==
  /\ Reads(w, "/invites/debug", TRUE, {invite_codes[i] : i \in AnyByCode(c)})
  /\ invite_codes' = [i \in DOMAIN invite_codes |->
                        IF i \in AnyByCode(c) THEN [invite_codes[i] EXCEPT !.used = TRUE]
                                              ELSE invite_codes[i]]
  /\ UNCHANGED relations

\* GET /invites/debug/{code}: the invite with the code, for any caller.
debug_code(w, c) ==
  /\ Reads(w, "/invites/debug", TRUE, {invite_codes[i] : i \in AnyByCode(c)})
  /\ UNCHANGED db

\* GET /invites/debug-user: the current user.
debug_current_user(w, u) ==
  /\ Reads(w, "/invites/debug-user", TRUE, {<<u, users[u]>>})
  /\ UNCHANGED db

\* GET /invites/students: the users linked to the teacher as students.
get_my_students(w, u) ==
  /\ Reads(w, "/invites/students", users[u] = "teacher",
           {r.student_id : r \in {x \in BagToSet(relations) : x.teacher_id = u}})
  /\ UNCHANGED db

\* GET /invites/my-teachers: the users linked to the student as teachers.
get_my_teachers(w, u) ==
  /\ Reads(w, "/invites/my-teachers", users[u] = "student",
           {r.teacher_id : r \in {x \in BagToSet(relations) : x.student_id = u}})
  /\ UNCHANGED db

\* GET /api/students, for a teacher without a school: the students of the
\* teacher's relations.
get_students(w, u) ==
  /\ Reads(w, "/api/students", users[u] = "teacher",
           {r.student_id : r \in {x \in BagToSet(relations) : x.teacher_id = u}})
  /\ UNCHANGED db

\* The users who send the reading requests.
ReadUsers == {1, 2}

NextReads ==
  \/ Tick
  \/ \E w \in Workers, t \in TeacherIds : IssueCall(w, t)
  \/ \E w \in Workers, c \in generate_random_code(CodeLength) : IssueAttempt(w, c)
  \/ \E w \in Workers, c \in CodeArgs, s \in FewStudentIdArgs : RedeemLookup(w, c, s)
  \/ \E w \in Workers : RedeemExpiry(w)
  \/ \E w \in Workers : RedeemStudent(w)
  \/ \E w \in Workers : RedeemExists(w)
  \/ \E w \in Workers : RedeemCommit(w)
  \/ \E w \in Workers : Finish(w)
  \/ \E w \in Workers, u \in ReadUsers : my_invites(w, u)
  \/ \E w \in Workers, c \in CodeArgs : debug_code(w, c)
  \/ \E w \in Workers, u \in ReadUsers : debug_current_user(w, u)
  \/ \E w \in Workers, u \in ReadUsers : get_my_students(w, u)
  \/ \E w \in Workers, u \in ReadUsers : get_my_teachers(w, u)
  \/ \E w \in Workers, u \in ReadUsers : get_students(w, u)

SpecReads == Init /\ [][NextReads]_vars

\* ------------------------------------------------------ the endpoints
\* Faulty variant of ensure_teacher: no role check.
ensure_teacher_Any(u) == TRUE

\* ensure_teacher and ensure_student: TRUE when no HTTPException is raised.
ensure_teacher(u) == users[u] = "teacher"

ensure_student(u) == users[u] = "student"

\* The HTTPException(403) of a failed role check leaves the endpoint before
\* the call of create_invite or use_invite.
Forbidden(w, d) ==
  /\ pc' = [pc EXCEPT ![w] = "done"]
  /\ status' = [status EXCEPT ![w] = "HTTPException"]
  /\ http' = [http EXCEPT ![w] = Response(403, d)]
  /\ UNCHANGED << initvars, now, db, code, invite, attempt, expiredSeen, late >>

\* POST /invites/create by the authenticated user u.
create_invite_code_request(w, u) ==
  /\ pc[w] = "idle"
  /\ IF ensure_teacher(u)
       THEN IssueCall(w, u)
       ELSE /\ Forbidden(w, "Only teachers can create/list/delete invites")
            /\ teacher_id' = [teacher_id EXCEPT ![w] = u]
            /\ UNCHANGED student_id

\* POST /invites/use by the authenticated user u.
use_invite_code_request(w, u, c) ==
  /\ pc[w] = "idle"
  /\ IF ensure_student(u)
       THEN RedeemLookup(w, c, u)
       ELSE /\ Forbidden(w, "Only students can use invites")
            /\ student_id' = [student_id EXCEPT ![w] = u]
            /\ UNCHANGED teacher_id

\* get_current_user answers 401 unless the token names a row of users.
CurrentUsers == DOMAIN users

NextHttp ==
  \/ Tick
  \/ \E w \in Workers, u \in CurrentUsers : create_invite_code_request(w, u)
  \/ \E w \in Workers, c \in generate_random_code(CodeLength) : IssueAttempt(w, c)
  \/ \E w \in Workers, u \in CurrentUsers, c \in CodeArgs : use_invite_code_request(w, u, c)
  \/ \E w \in Workers : RedeemExpiry(w)
  \/ \E w \in Workers : RedeemStudent(w)
  \/ \E w \in Workers : RedeemExists(w)
  \/ \E w \in Workers : RedeemCommit(w)
  \/ \E w \in Workers : Finish(w)

SpecHttp == Init /\ [][NextHttp]_vars

\* ------------------------------------------------------- changing roles
\* The users a superadmin promotes while invites are in use.
PromoteArgs == {3}

\* POST /superadmin/promote-to-school-admin: any user but a superadmin gets
\* the role school_admin; relations and invites stay as they are.
promote_to_school_admin(u) ==
  /\ u \in DOMAIN users
  /\ users[u] # "superadmin"
  /\ users' = [users EXCEPT ![u] = "school_admin"]
  /\ accounts' = (accounts (-) SetToBag({[email |-> Email(u), role |-> users[u]]}))
                   (+) SetToBag({[email |-> Email(u), role |-> "school_admin"]})
  /\ UNCHANGED << disciplinevars, now, db, pc, locals, expiredSeen, email >>

\* The callers of use_invite_code while roles change: the promoted user and
\* the id without a row.
RoleStudentIdArgs == PromoteArgs \cup {NoUser}

NextRoles ==
  \/ Tick
  \/ \E w \in Workers, t \in TeacherIds : IssueCall(w, t)
  \/ \E w \in Workers, c \in generate_random_code(CodeLength) : IssueAttempt(w, c)
  \/ \E w \in Workers, c \in CodeArgs, s \in RoleStudentIdArgs : RedeemLookup(w, c, s)
  \/ \E w \in Workers : RedeemExpiry(w)
  \/ \E w \in Workers : RedeemStudent(w)
  \/ \E w \in Workers : RedeemExists(w)
  \/ \E w \in Workers : RedeemCommit(w)
  \/ \E w \in Workers : Finish(w)
  \/ \E u \in PromoteArgs : promote_to_school_admin(u)

SpecRoles == Init /\ [][NextRoles]_vars

\* ===================================================================
\* Claims
\* ===================================================================

\* C1: in every reachable state no two rows of invite_codes have the same
\* code, whatever issue calls by whatever teachers have run or are running.
C1_CodesUnique ==
  \A i, j \in InviteIds : invite_codes[i].code = invite_codes[j].code => i = j

\* C1 witness: two invites are persisted and an issue call has met a collision.
C1_Witness ==
  /\ Len(invite_codes) = 2
  /\ \E w \in Workers : pc[w] = "issue" /\ attempt[w] > 0

\* C2: in every reachable state every (teacher_id, student_id) pair has at
\* most one row in teacher_student_relations.
C2_RelationUnique ==
  \A r \in BagToSet(relations) : CopiesIn(r, relations) <= 1

\* ------------------------------------------------ vocabulary of the claims
\* Worker w executes a statement of its call in this step.
Steps(w) == pc'[w] # pc[w]

\* The step writes nothing to the two tables.
Frame == invite_codes' = invite_codes /\ relations' = relations

\* The teacher who issued the invite worker w has loaded.
Issuer(w) == invite_codes[invite[w]].teacher_id

\* Worker w has returned from its call with value s.
Returned(w, s) == pc[w] = "done" /\ status[w] = s

\* Student s could redeem code c in this state: an unused, unexpired invite
\* has the code, s is a user with role student, and s is not linked to the
\* issuer.
Redeemable(c, s) ==
  \E i \in InviteIds :
    /\ invite_codes[i].code = c
    /\ invite_codes[i].used = FALSE
    /\ (now - invite_codes[i].created_at) * DaysPerTick <= 7
    /\ s \in DOMAIN users
    /\ users[s] = "student"
    /\ CopiesIn([teacher_id |-> invite_codes[i].teacher_id, student_id |-> s], relations) = 0

\* C3: a used flag that is true never becomes false again (so it goes from
\* false to true at most once), every step that turns a flag from false to
\* true adds exactly one relation row, and every commit of a redemption
\* writes the flag and adds exactly one relation row, that of the issuer and
\* the redeeming student.
C3_SingleUse ==
  [][ /\ \A i \in InviteIds :
           /\ i \in DOMAIN invite_codes'
           /\ invite_codes[i].used => invite_codes'[i].used
           /\ (~ invite_codes[i].used /\ invite_codes'[i].used)
                => BagCardinality(relations') = BagCardinality(relations) + 1
      /\ \A w \in Workers :
           (pc[w] = "commit" /\ Steps(w)) =>
             /\ invite_codes'[invite[w]].used
             /\ relations' = relations (+)
                  SetToBag({[teacher_id |-> Issuer(w), student_id |-> student_id[w]]})
    ]_vars

\* C3 witness: two redemptions of the same invite have both committed, so
\* the flag has been written twice.
C3_Witness ==
  \E w1, w2 \in Workers :
    /\ w1 # w2
    /\ Returned(w1, "success") /\ Returned(w2, "success")
    /\ invite[w1] = invite[w2]
    /\ invite_codes[invite[w1]].used

\* C4: when the relation query of a redemption finds the student already
\* linked to the issuer, the call returns already_linked and writes nothing
\* (the used flag and the relations stay as they are); if the invite is
\* unused and unexpired then, in the state the call leaves, the code is
\* redeemable by every other student not yet linked; and a redemption of a
\* code that has passed every check returns success.
C4_AlreadyLinked ==
  [][ \A w \in Workers :
        /\ (pc[w] = "exists" /\ Steps(w)
              /\ CopiesIn([teacher_id |-> Issuer(w), student_id |-> student_id[w]],
                          relations) > 0) =>
             /\ pc'[w] = "done" /\ status'[w] = "already_linked"
             /\ Frame
             /\ \A s2 \in DOMAIN users :
                  (/\ invite_codes[invite[w]].used = FALSE
                   /\ (now - invite_codes[invite[w]].created_at) * DaysPerTick <= 7
                   /\ s2 # student_id[w] /\ users[s2] = "student"
                   /\ CopiesIn([teacher_id |-> Issuer(w), student_id |-> s2], relations) = 0)
                  => Redeemable(code[w], s2)'
        /\ (pc[w] = "idle" /\ Steps(w) /\ pc'[w] # "issue"
              /\ \E s \in DOMAIN users : Redeemable(code'[w], s)) => pc'[w] = "expiry"
        /\ (pc[w] = "commit" /\ Steps(w)) => status'[w] = "success"
    ]_vars

\* C4 witness: one call has returned already_linked for an invite and a call
\* of another student has returned success for the same invite.
C4_Witness ==
  \E w1, w2 \in Workers :
    /\ Returned(w1, "already_linked") /\ Returned(w2, "success")
    /\ invite[w1] = invite[w2]
    /\ student_id[w1] # student_id[w2]

\* C5: a redemption that begins after some call has returned expired for
\* its code returns expired or invalid and never gets past the expiry check;
\* and a redemption that has yet to read the clock once expired has been
\* returned for its code finds the invite older than 7 days.
C5_ExpiryMonotone ==
  \A w \in Workers :
    /\ late[w] =>
         /\ pc[w] \notin {"student", "exists", "commit"}
         /\ pc[w] = "done" => status[w] \in {"expired", "invalid"}
    /\ (pc[w] = "expiry" /\ code[w] \in expiredSeen) =>
         (now - invite_codes[invite[w]].created_at) * DaysPerTick > 7

\* C5 witness: a call that began after an expired return has itself
\* returned expired, at a later time than the invite's expiry instant.
C5_Witness ==
  \E w \in Workers :
    /\ late[w] /\ Returned(w, "expired")
    /\ (now - invite_codes[invite[w]].created_at) * DaysPerTick > 7

\* C6: when the expiry check of a redemption finds the invite older than
\* 7 days, the call returns expired and writes nothing: the used flag stays
\* as it is and no relation is created.
C6_ExpiredNoEffect ==
  [][ \A w \in Workers :
        (pc[w] = "expiry" /\ Steps(w)
           /\ (now - invite_codes[invite[w]].created_at) * DaysPerTick > 7) =>
          /\ pc'[w] = "done" /\ status'[w] = "expired"
          /\ Frame
    ]_vars

\* C6 witness: a call has returned expired and its invite is still unused.
C6_Witness ==
  \E w \in Workers :
    /\ Returned(w, "expired")
    /\ invite_codes[invite[w]].used = FALSE
    /\ relations = EmptyBag

\* C7: a redemption passes every check whose condition holds when the check
\* runs (the lookup when an unused invite has the code, the expiry check when
\* the invite is at most 7 days old, the user check when the user exists with
\* role student, the relation query when no link to the issuer exists); the
\* commit that follows returns success, and in the state it leaves the
\* relation (issuer, student) exists and the invite has used = true.
C7_Success ==
  [][ \A w \in Workers :
        /\ (pc[w] = "idle" /\ Steps(w) /\ pc'[w] # "issue"
              /\ \E i \in InviteIds :
                    invite_codes[i].code = code'[w] /\ invite_codes[i].used = FALSE)
             => (pc'[w] = "expiry" /\ invite_codes[invite'[w]].code = code'[w])
        /\ (pc[w] = "expiry" /\ Steps(w)
              /\ (now - invite_codes[invite[w]].created_at) * DaysPerTick <= 7)
             => pc'[w] = "student"
        /\ (pc[w] = "student" /\ Steps(w) /\ student_id[w] \in DOMAIN users
              /\ users[student_id[w]] = "student") => pc'[w] = "exists"
        /\ (pc[w] = "exists" /\ Steps(w)
              /\ CopiesIn([teacher_id |-> Issuer(w), student_id |-> student_id[w]],
                          relations) = 0) => pc'[w] = "commit"
        /\ (pc[w] = "commit" /\ Steps(w)) =>
             /\ pc'[w] = "done" /\ status'[w] = "success"
             /\ CopiesIn([teacher_id |-> Issuer(w), student_id |-> student_id[w]],
                         relations') >= 1
             /\ invite_codes'[invite[w]].used = TRUE
    ]_vars

\* C7 witness: a call has returned success; the relation exists and the
\* invite is used.
C7_Witness ==
  \E w \in Workers :
    /\ Returned(w, "success")
    /\ CopiesIn([teacher_id |-> Issuer(w), student_id |-> student_id[w]], relations) = 1
    /\ invite_codes[invite[w]].used

\* C8: a redemption whose code has no invite row, or only a row with
\* used = true, returns invalid at the lookup and writes nothing; any other
\* lookup goes on to the expiry check.
C8_InvalidCode ==
  [][ \A w \in Workers :
        (pc[w] = "idle" /\ Steps(w) /\ pc'[w] # "issue") =>
          IF \A i \in InviteIds : invite_codes[i].code = code'[w] => invite_codes[i].used
            THEN pc'[w] = "done" /\ status'[w] = "invalid" /\ Frame
            ELSE pc'[w] = "expiry"
    ]_vars

\* C8 witness: a call has returned invalid at the lookup of a code whose
\* invite another redemption has marked used.
C8_Witness ==
  \E w \in Workers :
    /\ Returned(w, "invalid") /\ invite[w] = None
    /\ \E i \in InviteIds : invite_codes[i].code = code[w] /\ invite_codes[i].used

\* C9: when the redeeming user exists with a role other than student, the
\* call returns invalid, creates no relation and leaves the used flag as it is.
C9_WrongRole ==
  [][ \A w \in Workers :
        (pc[w] = "student" /\ Steps(w) /\ student_id[w] \in DOMAIN users
           /\ users[student_id[w]] # "student") =>
          /\ pc'[w] = "done" /\ status'[w] = "invalid"
          /\ Frame
    ]_vars

\* C9 witness: a teacher's redemption of an unused, unexpired code has
\* returned invalid.
C9_Witness ==
  \E w \in Workers :
    /\ Returned(w, "invalid") /\ invite[w] # None
    /\ users[student_id[w]] = "teacher"
    /\ invite_codes[invite[w]].used = FALSE
    /\ (now - invite_codes[invite[w]].created_at) * DaysPerTick <= 7

\* C10: when the code is unused and unexpired and student_id matches no
\* user, the call returns student_not_found and writes nothing.
C10_StudentNotFound ==
  [][ \A w \in Workers :
        (pc[w] = "student" /\ Steps(w) /\ student_id[w] \notin DOMAIN users) =>
          /\ pc'[w] = "done" /\ status'[w] = "student_not_found"
          /\ Frame
    ]_vars

\* C10 witness: a call with an unknown student_id has returned
\* student_not_found for an unused, unexpired invite.
C10_Witness ==
  \E w \in Workers :
    /\ Returned(w, "student_not_found")
    /\ student_id[w] \notin DOMAIN users
    /\ invite_codes[invite[w]].used = FALSE
    /\ (now - invite_codes[invite[w]].created_at) * DaysPerTick <= 7

\* C11: issue fails with RuntimeError exactly when its fifth insert attempt
\* collides, every earlier one having collided too; the call that fails has
\* changed no table at any of its steps, and POST /invites/create answers 500.
C11_ExhaustedRetries ==
  [][\A w \in Workers :
       /\ (pc[w] = "idle" /\ pc'[w] = "issue") => Frame /\ attempt'[w] = 0
       /\ (pc[w] = "issue" /\ (Steps(w) \/ attempt'[w] # attempt[w])) =>
            /\ (status'[w] = "RuntimeError") <=> (attempt'[w] = 5)
            /\ (pc'[w] = "done") <=> (status'[w] \in {"created", "RuntimeError"})
            /\ attempt'[w] # attempt[w] =>
                 /\ attempt'[w] = attempt[w] + 1
                 /\ Frame
                 /\ invite_codes # << >>
            /\ status'[w] = "RuntimeError" =>
                 /\ Frame
                 /\ http'[w].status_code = 500
            /\ status'[w] = "created" =>
                 /\ attempt'[w] = attempt[w]
                 /\ Len(invite_codes') = Len(invite_codes) + 1
                 /\ http'[w].status_code = 200]_vars

\* C11 witness: an issue call has failed after five collisions and was answered 500.
C11_Witness ==
  \E w \in Workers :
    /\ Returned(w, "RuntimeError")
    /\ attempt[w] = 5
    /\ http[w].status_code = 500

\* C12: a redemption that read the invite as unused goes on without reading
\* the flag again: when another student's redemption of the same code commits
\* in between, its own checks and its commit still pass, it returns success
\* and adds its own relation.
C12_BothSucceed ==
  [][\A w \in Workers :
       (/\ Steps(w)
        /\ pc[w] \in {"expiry", "student", "exists", "commit"}
        /\ invite_codes[invite[w]].used) =>
         /\ (pc[w] = "expiry" /\ (now - invite_codes[invite[w]].created_at) * DaysPerTick <= 7)
              => pc'[w] = "student"
         /\ (pc[w] = "student" /\ student_id[w] \in DOMAIN users /\ users[student_id[w]] = "student")
              => pc'[w] = "exists"
         /\ (pc[w] = "exists" /\ RelationRows(invite_codes[invite[w]].teacher_id, student_id[w]) = 0)
              => pc'[w] = "commit"
         /\ pc[w] = "commit" =>
              /\ pc'[w] = "done"
              /\ status'[w] = "success"
              /\ relations' = relations (+)
                   SetToBag({NewRelation(invite_codes[invite[w]].teacher_id, student_id[w])})
              /\ invite_codes' = invite_codes]_vars

\* C12 witness: two redemptions of one invite by different students have both
\* returned success and each student has one relation row.
C12_Witness ==
  \E w, v \in Workers :
    /\ w # v
    /\ Returned(w, "success")
    /\ Returned(v, "success")
    /\ invite[w] = invite[v]
    /\ student_id[w] # student_id[v]
    /\ RelationRows(invite_codes[invite[w]].teacher_id, student_id[w]) = 1
    /\ RelationRows(invite_codes[invite[v]].teacher_id, student_id[v]) = 1

\* C13: an invite code is single-use: a redeem call returns success only for
\* an invite that no earlier call has used, so that at most one call of a
\* given code returns success, interleaved calls included.
C13_OneSuccessPerCode ==
  [][\A w \in Workers :
       (Steps(w) /\ pc'[w] = "done" /\ status'[w] = "success") =>
         /\ ~ invite_codes[invite[w]].used
         /\ \A v \in Workers \ {w} :
              ~ (Returned(v, "success") /\ code[v] = code[w])]_vars

\* C14: POST /invites/use answers the result of redeem with success -> 200
\* and the success message, expired -> 400, student_not_found -> 404,
\* invalid -> 404, already_linked -> 400.
C14_StatusMapping ==
  \A w \in Workers :
    (pc[w] = "done" /\ code[w] # << >>) =>
      /\ status[w] = "success" =>
           http[w] = [status_code |-> 200, detail |-> "Successfully connected to teacher"]
      /\ status[w] = "expired" => http[w].status_code = 400
      /\ status[w] = "student_not_found" => http[w].status_code = 404
      /\ status[w] = "invalid" => http[w].status_code = 404
      /\ status[w] = "already_linked" => http[w].status_code = 400

\* C14 witness: one request was answered 404 for invalid and another 400 for
\* already_linked.
C14_Witness ==
  \E w, v \in Workers :
    /\ Returned(w, "invalid") /\ code[w] # << >> /\ http[w].status_code = 404
    /\ Returned(v, "already_linked") /\ http[v].status_code = 400

\* C16: a redeem call that returns has returned exactly one of success,
\* expired, invalid, student_not_found and already_linked, so POST /invites/use
\* never answers "Unknown status".
C16_FiveOutcomes ==
  \A w \in Workers :
    (pc[w] = "done" /\ code[w] # << >>) =>
      /\ status[w] \in {"success", "expired", "invalid", "student_not_found", "already_linked"}
      /\ http[w].detail # "Unknown status"
      /\ http[w].status_code \in {200, 400, 404}

\* C16 witness: two redemptions have returned, one already_linked and one
\* student_not_found.
C16_Witness ==
  \E w, v \in Workers :
    /\ Returned(w, "already_linked") /\ http[w].detail = "Already connected to this teacher"
    /\ Returned(v, "student_not_found") /\ http[v].detail = "Student not found"

\* C17: every persisted invite code has exactly 6 symbols, each one of
\* ABCDEFGHJKLMNPQRSTUVWXYZ23456789 (no 0, O, 1 or I).
C17_CodeFormat ==
  \A i \in DOMAIN invite_codes :
    /\ Len(invite_codes[i].code) = 6
    /\ \A k \in 1..Len(invite_codes[i].code) :
         invite_codes[i].code[k] \in
           {"A", "B", "C", "D", "E", "F", "G", "H", "J", "K", "L", "M", "N", "P", "Q", "R",
            "S", "T", "U", "V", "W", "X", "Y", "Z", "2", "3", "4", "5", "6", "7", "8", "9"}

\* C17 witness: two invites with different codes of six symbols are persisted.
C17_Witness ==
  /\ Len(invite_codes) = 2
  /\ \A i \in DOMAIN invite_codes : Len(invite_codes[i].code) = 6
  /\ invite_codes[1].code # invite_codes[2].code

\* C20: redeem makes its checks in the order lookup, expiry, user exists,
\* role, relation exists, and the first check that fails decides the result:
\* each result is returned only by its own check, which does not look at what
\* the later checks read.  An expired code gives expired whoever the caller
\* is; a user who is not a student gets invalid even when already linked.
C20_CheckOrder ==
  [][\A w \in Workers :
       (Steps(w) /\ (pc[w] = "idle" => code'[w] # << >>)) =>
         /\ pc[w] = "idle" => pc'[w] \in {"expiry", "done"}
         /\ pc[w] = "expiry" => pc'[w] \in {"student", "done"}
         /\ pc[w] = "student" => pc'[w] \in {"exists", "done"}
         /\ pc[w] = "exists" => pc'[w] \in {"commit", "done"}
         /\ pc[w] = "commit" => pc'[w] = "done"
         /\ (pc[w] = "idle"
               /\ \A i \in DOMAIN invite_codes :
                    invite_codes[i].code = code'[w] => invite_codes[i].used)
              => pc'[w] = "done" /\ status'[w] = "invalid"
         /\ (pc[w] = "expiry"
               /\ (now - invite_codes[invite[w]].created_at) * DaysPerTick > 7)
              => pc'[w] = "done" /\ status'[w] = "expired"
         /\ (pc[w] = "student" /\ student_id[w] \notin DOMAIN users)
              => pc'[w] = "done" /\ status'[w] = "student_not_found"
         /\ (pc[w] = "student" /\ student_id[w] \in DOMAIN users
               /\ users[student_id[w]] # "student")
              => pc'[w] = "done" /\ status'[w] = "invalid"
         /\ (pc[w] = "exists"
               /\ RelationRows(invite_codes[invite[w]].teacher_id, student_id[w]) > 0)
              => pc'[w] = "done" /\ status'[w] = "already_linked"
         /\ (pc'[w] = "done" /\ pc[w] \in {"idle", "expiry", "student", "exists", "commit"}) =>
              /\ status'[w] = "expired" => pc[w] = "expiry"
              /\ status'[w] = "student_not_found" => pc[w] = "student"
              /\ status'[w] = "invalid" => pc[w] \in {"idle", "student"}
              /\ status'[w] = "already_linked" => pc[w] = "exists"
              /\ status'[w] = "success" => pc[w] = "commit"]_vars

\* C20 witness: one call has returned expired for a caller who is no student, and a
\* linked user who is no longer a student got past the lookup and was
\* answered invalid.
C20_Witness ==
  \E w, v \in Workers :
    /\ Returned(w, "expired")
    /\ student_id[w] \notin DOMAIN users \/ users[student_id[w]] # "student"
    /\ Returned(v, "invalid")
    /\ invite[v] # None
    /\ users[student_id[v]] # "student"
    /\ RelationRows(invite_codes[invite[v]].teacher_id, student_id[v]) > 0

\* C15: POST /invites/create serves teachers only and POST /invites/use
\* students only: a request by a user of another role is answered 403 and
\* changes no table, a request by a user of the right role is not answered
\* 403; hence the issuer of every persisted invite is a teacher.
C15_RoleGuards ==
  /\ [](\A i \in DOMAIN invite_codes : users[invite_codes[i].teacher_id] = "teacher")
  /\ [][\A w \in Workers :
          (pc[w] = "idle" /\ Steps(w)) =>
            /\ teacher_id'[w] # None =>
                 IF users[teacher_id'[w]] = "teacher"
                   THEN pc'[w] = "issue" /\ http'[w].status_code # 403
                   ELSE pc'[w] = "done" /\ http'[w].status_code = 403 /\ Frame
            /\ student_id'[w] # None =>
                 IF users[student_id'[w]] = "student"
                   THEN http'[w].status_code # 403
                   ELSE pc'[w] = "done" /\ http'[w].status_code = 403 /\ Frame
            /\ http'[w].status_code = 403 =>
                 /\ Frame
                 /\ code'[w] = << >>
                 /\ invite'[w] = None]_vars

\* C15 witness: a student was refused an invite and a teacher a redemption, while
\* an invite is persisted.
C15_Witness ==
  \E w, v \in Workers :
    /\ pc[w] = "done" /\ http[w].status_code = 403
    /\ teacher_id[w] # None /\ users[teacher_id[w]] = "student"
    /\ pc[v] = "done" /\ http[v].status_code = 403
    /\ student_id[v] # None /\ users[student_id[v]] = "teacher"
    /\ invite_codes # << >>

\* C19: the last step of redeem is atomic.  No committed state holds a
\* partial result: a teacher has relation rows only when one of the teacher's
\* invites is used, and a used invite only with a relation row of its
\* teacher.  A step inserts a relation row exactly when it is the commit of
\* a redemption, which leaves that redemption's invite used, and an invite
\* becomes used only in such a step; a commit that fails changes no table
\* and returns invalid.
C19_AtomicCommit ==
  /\ [](/\ \A i \in DOMAIN invite_codes :
             invite_codes[i].used =>
               \E r \in BagToSet(relations) : r.teacher_id = invite_codes[i].teacher_id
        /\ \A r \in BagToSet(relations) :
             \E i \in DOMAIN invite_codes :
               invite_codes[i].used /\ invite_codes[i].teacher_id = r.teacher_id)
  /\ [][/\ relations' # relations =>
             \E w \in Workers :
               /\ pc[w] = "commit" /\ pc'[w] = "done" /\ status'[w] = "success"
               /\ relations' = relations (+)
                    SetToBag({NewRelation(invite_codes[invite[w]].teacher_id, student_id[w])})
               /\ invite_codes'[invite[w]].used
        /\ (\E i \in DOMAIN invite_codes : invite_codes'[i].used /\ ~ invite_codes[i].used) =>
             \E w \in Workers :
               /\ pc[w] = "commit" /\ pc'[w] = "done" /\ status'[w] = "success"
               /\ BagCardinality(relations') = BagCardinality(relations) + 1
        /\ \A w \in Workers :
             (pc[w] = "commit" /\ Steps(w)) =>
               \/ status'[w] = "success" /\ relations' # relations
                    /\ invite_codes'[invite[w]].used
               \/ status'[w] = "invalid" /\ Frame]_vars

\* C19 witness: the commit of a student's redemption has failed; the call returned
\* invalid, the invite is unused and no relation exists.
C19_Witness ==
  \E w \in Workers :
    /\ Returned(w, "invalid")
    /\ invite[w] # None
    /\ student_id[w] \in DOMAIN users
    /\ users[student_id[w]] = "student"
    /\ ~ invite_codes[invite[w]].used
    /\ relations = EmptyBag

\* C18: POST /init/create-first-superadmin works only once: the users table
\* never holds more than one superadmin created through it.
C18_OnlyOnce ==
  Cardinality({r \in BagToSet(accounts) : r.role = "superadmin"}) <= 1

\* C21: every call of issue terminates, after at most 5 insert attempts; the
\* first attempt whose insert succeeds ends the call with that invite, so
\* that a call adds one invite row when it succeeds and none otherwise.
C21_IssueTerminates ==
  /\ [](\A w \in Workers : pc[w] = "issue" => attempt[w] \in 0..4)
  /\ [][\A w \in Workers :
          (pc[w] = "issue" /\ (Steps(w) \/ attempt'[w] # attempt[w])) =>
            /\ Len(invite_codes') \in {Len(invite_codes), Len(invite_codes) + 1}
            /\ Len(invite_codes') = Len(invite_codes) + 1 =>
                 /\ pc'[w] = "done"
                 /\ status'[w] = "created"
                 /\ invite'[w] = Len(invite_codes')
            /\ pc'[w] = "issue" =>
                 /\ attempt'[w] = attempt[w] + 1
                 /\ invite_codes' = invite_codes]_vars
  /\ \A w \in Workers : (pc[w] = "issue") ~> (pc[w] = "done")

\* C21 witness: a call has returned its invite after four collisions, and
\* the table holds the invites of two calls.
C21_Witness ==
  \E w \in Workers :
    /\ Returned(w, "created")
    /\ attempt[w] = 4
    /\ invite[w] = 2
    /\ Len(invite_codes) = 2

\* C22: the step by which issue succeeds persists one row with used = false,
\* the caller's teacher_id and created_at = now, and returns that row; in
\* the state it leaves, the code is redeemable by every student who is not
\* linked to the teacher.
C22_IssuedInvite ==
  [][\A w \in Workers :
       (pc[w] = "issue" /\ pc'[w] = "done" /\ status'[w] = "created") =>
         /\ invite'[w] = Len(invite_codes) + 1
         /\ DOMAIN invite_codes' = 1..(Len(invite_codes) + 1)
         /\ \A i \in DOMAIN invite_codes : invite_codes'[i] = invite_codes[i]
         /\ invite_codes'[invite'[w]].used = FALSE
         /\ invite_codes'[invite'[w]].teacher_id = teacher_id[w]
         /\ invite_codes'[invite'[w]].created_at = now
         /\ users[teacher_id[w]] = "teacher"
         /\ \A s \in DOMAIN users :
              (users[s] = "student" /\ RelationRows(teacher_id[w], s) = 0) =>
                \E c \in generate_random_code(6) :
                  /\ c = invite_codes'[invite'[w]].code
                  /\ Redeemable(c, s)']_vars

\* C22 witness: an invite issued after the clock has moved was redeemed
\* in the tick of its creation, and both calls have returned.
C22_Witness ==
  \E w, v \in Workers :
    /\ Returned(w, "created")
    /\ Returned(v, "success")
    /\ invite[v] = invite[w]
    /\ invite_codes[invite[w]].created_at = now
    /\ now > 0

\* C23: once an unused invite has expired it is never used: no later step
\* sets its used flag and no later step returns success for it, the commit
\* of a redemption that passed the expiry check earlier included.
C23_ExpiredStaysUnused ==
  [][\A i \in DOMAIN invite_codes :
       (/\ ~ invite_codes[i].used
        /\ (now - invite_codes[i].created_at) * DaysPerTick > 7) =>
         /\ ~ invite_codes'[i].used
         /\ \A w \in Workers :
              ~ (Steps(w) /\ pc'[w] = "done" /\ status'[w] = "success" /\ invite[w] = i)]_vars

\* C24: the expiry test is strict: the expiry check of a redemption returns
\* expired if and only if now - created_at is more than 7 days; at exactly
\* 7 days the call goes on to its next check.
C24_StrictExpiry ==
  [][\A w \in Workers :
       (pc[w] = "expiry" /\ Steps(w)) =>
         /\ (now - invite_codes[invite[w]].created_at) * DaysPerTick > 7
              => pc'[w] = "done" /\ status'[w] = "expired"
         /\ (now - invite_codes[invite[w]].created_at) * DaysPerTick <= 7
              => pc'[w] = "student" /\ status'[w] # "expired"]_vars

\* C24 witness: one redemption is past the expiry check with an invite aged
\* 7 days exactly, while another has returned expired for an older invite.
C24_Witness ==
  \E w, v \in Workers :
    /\ pc[w] = "student"
    /\ (now - invite_codes[invite[w]].created_at) * DaysPerTick = 7
    /\ Returned(v, "expired")
    /\ (now - invite_codes[invite[v]].created_at) * DaysPerTick > 7

C26_ReadOnly ==
  [][/\ ~ Frame =>
          \E w \in Workers :
            /\ pc[w] \in {"issue", "commit"}
            /\ pc'[w] = "done"
            /\ status'[w] \in {"created", "success"}
     /\ \A w \in Workers :
          (pc[w] = "idle" /\ pc'[w] = "done" /\ status'[w] = "read") => Frame]_vars

\* C26 witness: two reading requests were answered with rows, one with a
\* used invite and one with a linked student.
C26_Witness ==
  \E w, v \in Workers :
    /\ Returned(w, "read") /\ http[w].status_code = 200
    /\ http[w].detail.endpoint = "/invites/mine"
    /\ \E i \in DOMAIN invite_codes :
         invite_codes[i].used /\ invite_codes[i] \in http[w].detail.rows
    /\ Returned(v, "read") /\ http[v].status_code = 200
    /\ http[v].detail.endpoint = "/api/students"
    /\ http[v].detail.rows = {2}

\* C27: invite and relation state is monotone: in every step every invite
\* row and every relation row stays, an invite keeps its code, teacher_id
\* and created_at, and a used flag that is true stays true.
C27_Monotone ==
  [][/\ Len(invite_codes') >= Len(invite_codes)
     /\ \A i \in DOMAIN invite_codes :
          /\ invite_codes'[i].code = invite_codes[i].code
          /\ invite_codes'[i].teacher_id = invite_codes[i].teacher_id
          /\ invite_codes'[i].created_at = invite_codes[i].created_at
          /\ invite_codes[i].used => invite_codes'[i].used
     /\ \A r \in BagToSet(relations) :
          CopiesIn(r, relations') >= CopiesIn(r, relations)]_vars

\* C27 witness: both tables have grown and flags were written: two invites
\* of different age, both used, and the relations of two students.
C27_Witness ==
  /\ Len(invite_codes) = 2
  /\ invite_codes[1].used /\ invite_codes[2].used
  /\ invite_codes[1].created_at < invite_codes[2].created_at
  /\ Cardinality(BagToSet(relations)) = 2

\* C28: every relation has a provenance: for every relation row (t, s) some
\* invite of teacher t is used; a relation row is added only by the commit
\* of a redemption, for the issuer of its invite and its student.
C28_Provenance ==
  /\ [](\A r \in BagToSet(relations) :
          \E i \in DOMAIN invite_codes :
            invite_codes[i].teacher_id = r.teacher_id /\ invite_codes[i].used)
  /\ [][relations' # relations =>
          \E w \in Workers :
            /\ pc[w] = "commit" /\ pc'[w] = "done" /\ status'[w] = "success"
            /\ relations' = relations (+)
                 SetToBag({[teacher_id |-> invite_codes[invite[w]].teacher_id,
                            student_id |-> student_id[w]]})]_vars

\* C28 witness: a student is linked to the teacher by a used invite while
\* another invite of the teacher is unused.
C28_Witness ==
  /\ \E r \in BagToSet(relations), i, j \in DOMAIN invite_codes :
       /\ invite_codes[i].teacher_id = r.teacher_id
       /\ invite_codes[i].used
       /\ ~ invite_codes[j].used
       /\ users[r.student_id] = "student"
  /\ BagCardinality(relations) = 1

\* C29: under any interleaving of redemptions the invites with used = true
\* are at most as many as the relation rows, and the issuer of every used
\* invite has at least one relation.
C29_UsedBounded ==
  /\ Cardinality({i \in DOMAIN invite_codes : invite_codes[i].used}) <= BagCardinality(relations)
  /\ \A i \in DOMAIN invite_codes :
       invite_codes[i].used =>
         \E r \in BagToSet(relations) : r.teacher_id = invite_codes[i].teacher_id

\* C29 witness: two redemptions of one invite have both committed: one used
\* invite, two relation rows.
C29_Witness ==
  /\ Cardinality({i \in DOMAIN invite_codes : invite_codes[i].used}) = 1
  /\ BagCardinality(relations) = 2
  /\ \A w \in Workers : pc[w] = "done" /\ status[w] = "success"

\* C30: an assignment that was removed (is_active = false) stays inactive
\* whatever is called afterwards, and a request to assign a discipline to a
\* teacher who has a row for it, active or removed, sent by a school admin, is answered 400
\* 'already assigned' and changes no row.
C30_RemovedStaysInactive ==
  [][/\ \A p \in DOMAIN teacher_disciplines :
          /\ p \in DOMAIN teacher_disciplines'
          /\ ~ teacher_disciplines[p] => ~ teacher_disciplines'[p]
     /\ \A w \in Workers :
          (/\ pc[w] = "idle" /\ pc'[w] = "done" /\ status'[w] = "assign"
           /\ <<teacher_id'[w], discipline_id'[w]>> \in DOMAIN teacher_disciplines
           /\ http'[w].status_code \notin {403}) =>
            /\ http'[w] = [status_code |-> 400, detail |-> "already assigned"]
            /\ teacher_disciplines' = teacher_disciplines]_vars

\* C30 witness: the request to assign a removed discipline again was
\* answered 400 and the assignment is inactive.
C30_Witness ==
  \E w \in Workers :
    /\ pc[w] = "done"
    /\ status[w] = "assign"
    /\ http[w] = [status_code |-> 400, detail |-> "already assigned"]
    /\ <<teacher_id[w], discipline_id[w]>> \in DOMAIN teacher_disciplines
    /\ ~ teacher_disciplines[<<teacher_id[w], discipline_id[w]>>]

====
